---- MODULE Spec2Model ----
(***************************************************************************)
(* State machine of the lattice-surgery visualizer (src/lattice.tsx): the  *)
(* tick engine (prepareTick / advanceInterpolations / commitActions), the  *)
(* per-frame render loop, and the Play / Step / Reset / program-edit       *)
(* controls of LatticeSurgeryVisualizer.                                   *)
(*                                                                         *)
(* Numbers: the code works on JavaScript numbers. Rectangles of the        *)
(* runtime state are kept here as fixed-point integers with denominator    *)
(* Unit (tile value * Unit); progress values are fixed-point as well       *)
(* (0 .. Unit stands for 0 .. 1). Every tickMs of Programs divides Unit    *)
(* and frame deltas are multiples of FrameMs, so every interpolation the   *)
(* model performs is exact.                                                *)
(*                                                                         *)
(* Object identity: cloneRuntimeState deep-copies the patches but copies   *)
(* the overlay shallowly, so the overlay's endpoints a and b stay the      *)
(* patch objects they were at prepare time. Each endpoint therefore        *)
(* carries the value of the object it refers to and an owner tag telling   *)
(* which snapshot's patch map holds that object.                           *)
(***************************************************************************)
EXTENDS Integers, Sequences, FiniteSets, TLC

VARIABLES
    programText,  \* useState programText (line 313)
    runtime,      \* useState runtime (line 329)
    stepIdx,      \* useState stepIdx (line 330), 0-based as in the code
    tInStep,      \* useState tInStep (line 331), ms inside the current tick
    playing,      \* useState playing (line 332)
    last,         \* history: what the most recent handler did
    tick,         \* history: the tick in progress (or just completed)
    finished      \* history: the last step's tick has committed since reset/load

vars == <<programText, runtime, stepIdx, tInStep, playing, last, tick, finished>>

\* ------------------------------------------------------------------ bounds

\* Frame deltas are 0, FrameMs, ..., MaxDt * FrameMs.
MaxDt == 3

\* ------------------------------------------------------------------ types

PatchIds == {"q0", "q1", "q2"}

EdgeNames == {"top", "right", "bottom", "left"}

\* an optional value: <<>> is undefined, <<v>> is v
Undefined == <<>>

Some(v) == <<v>>

Rect(x, y, w, h) == [x |-> x, y |-> y, w |-> w, h |-> h]

Edges(t, r, b, l) == [top |-> t, right |-> r, bottom |-> b, left |-> l]

\* Action constructors (type Action)
InitPatch(id, rect, edges) ==
    [kind |-> "InitPatch", id |-> id, rect |-> rect, edges |-> edges]

DeformTo(id, to) == [kind |-> "DeformTo", id |-> id, to |-> to]

MoveTo(id, x, y) == [kind |-> "MoveTo", id |-> id, to |-> [x |-> x, y |-> y]]

TwoPatchMeas(lid, ledge, rid, redge, outcome) ==
    [kind |-> "TwoPatchMeas", lhs |-> [id |-> lid, edge |-> ledge],
     rhs |-> [id |-> rid, edge |-> redge], outcome |-> outcome]

SinglePatchMeas(id, basis, outcome) ==
    [kind |-> "SinglePatchMeas", id |-> id, basis |-> basis, outcome |-> outcome]

RotateEdges(id) == [kind |-> "RotateEdges", id |-> id]

Discard(id) == [kind |-> "Discard", id |-> id]

Step(label, actions) == [label |-> label, actions |-> actions]

Program(tickMs, steps) ==
    [tickMs |-> tickMs, grid |-> [cols |-> 26, rows |-> 16], steps |-> steps]

\* ------------------------------------------------------------------ demo

ZXZX == Edges("Z", "X", "Z", "X")

demoProgram ==
    Program(700, <<
        Step("init", <<
            InitPatch("q0", Rect(6, 7, 3, 3), ZXZX),
            InitPatch("q1", Rect(16, 7, 3, 3), ZXZX) >>),
        Step("approach", <<
            DeformTo("q0", Rect(8, 7, 4, 3)),
            DeformTo("q1", Rect(14, 7, 4, 3)) >>),
        Step("Z Z measurement", <<
            TwoPatchMeas("q0", "right", "q1", "left", 1) >>),
        Step("separate", <<
            DeformTo("q0", Rect(6, 7, 3, 3)),
            DeformTo("q1", Rect(16, 7, 3, 3)) >>),
        Step("rotate edges", << RotateEdges("q0"), RotateEdges("q1") >>),
        Step("X X measurement", <<
            TwoPatchMeas("q0", "bottom", "q1", "bottom", -1) >>) >>)

\* ------------------------------------------------------------------ numbers

\* denominator of the fixed-point numbers of the runtime state
Unit == demoProgram.tickMs

\* granularity of the frame deltas the model feeds to the clock
FrameMs == demoProgram.tickMs \div 2

Fix(n) == n * Unit

FixRect(r) == [x |-> Fix(r.x), y |-> Fix(r.y), w |-> Fix(r.w), h |-> Fix(r.h)]

Min(a, b) == IF a < b THEN a ELSE b

Max(a, b) == IF a > b THEN a ELSE b

\* clamp01(newT / tickMs), as a fixed-point progress in 0 .. Unit
clamp01(num, den) == Min(Unit, Max(0, (num * Unit) \div den))

\* lerp(a, b, t) = a + (b - a) * t, t fixed-point
lerp(a, b, t) == a + ((b - a) * t) \div Unit

lerpRect(a, b, t) ==
    [x |-> lerp(a.x, b.x, t), y |-> lerp(a.y, b.y, t),
     w |-> lerp(a.w, b.w, t), h |-> lerp(a.h, b.h, t)]

\* deepCopy = JSON.parse(JSON.stringify(x)): a fresh object with the same
\* finite numbers and strings; a property holding undefined is dropped, which
\* the optional representation (<<>>) already identifies with an absent one.
deepCopy(x) == x

\* ------------------------------------------------------------------ engine
\* A RuntimePatch is [rect, edges, animFrom, animTo] (its id is its map key;
\* the display label only reaches the renderer). A RuntimeState is
\* [patches, overlay]: patches a function on the identifiers present, overlay
\* an optional measurementOverlay record
\*   [aId, aEdge, bId, bEdge, outcome, progress, a, b, aOwner, bOwner]
\* where a / b are the values of the endpoint objects and aOwner / bOwner say
\* where those objects live: "own" (this snapshot's patch map), "prev" (the
\* patch map of the snapshot this one was cloned from), "older" (an earlier
\* snapshot's), "orphan" (replaced in or deleted from the map since).

NewPatch(rect, edges) ==
    [rect |-> rect, edges |-> edges, animFrom |-> Undefined, animTo |-> Undefined]

EmptyRuntime == [patches |-> << >>, overlay |-> Undefined]

Has(s, id) == id \in DOMAIN s.patches

\* endpoints that alias a patch of this snapshot see its in-place mutations
Sync(s) ==
    IF s.overlay = Undefined THEN s
    ELSE LET o == s.overlay[1] IN
         [s EXCEPT !.overlay = Some(
             [o EXCEPT !.a = IF o.aOwner = "own" THEN s.patches[o.aId] ELSE o.a,
                       !.b = IF o.bOwner = "own" THEN s.patches[o.bId] ELSE o.b])]

\* mutation of the fields of the patch object stored under id
Mutate(s, id, p) == Sync([s EXCEPT !.patches[id] = p])

\* the object stored under id leaves the map (replaced or deleted)
Detach(s, id) ==
    IF s.overlay = Undefined THEN s
    ELSE LET o == s.overlay[1] IN
         [s EXCEPT !.overlay = Some(
             [o EXCEPT !.aOwner = IF o.aOwner = "own" /\ o.aId = id THEN "orphan" ELSE @,
                       !.bOwner = IF o.bOwner = "own" /\ o.bId = id THEN "orphan" ELSE @])]

Aged(owner) ==
    CASE owner = "own" -> "prev"
      [] owner = "prev" -> "older"
      [] OTHER -> owner

\* cloneRuntimeState: patches deep-copied, overlay spread ({...overlay}): its
\* a and b keep pointing at the source snapshot's (or an older) patch objects
cloneRuntimeState(s) ==
    [patches |-> [k \in DOMAIN s.patches |-> deepCopy(s.patches[k])],
     overlay |-> IF s.overlay = Undefined THEN Undefined
                 ELSE Some([s.overlay[1] EXCEPT !.aOwner = Aged(@),
                                                !.bOwner = Aged(@)])]

\* --- prepareTick, one case per action kind

prepareDeformTo(s, act) ==
    IF ~Has(s, act.id) THEN s
    ELSE LET p == s.patches[act.id] IN
         Mutate(s, act.id, [p EXCEPT !.animFrom = Some(deepCopy(p.rect)),
                                     !.animTo = Some(FixRect(act.to))])

prepareMoveTo(s, act) ==
    IF ~Has(s, act.id) THEN s
    ELSE LET p == s.patches[act.id] IN
         Mutate(s, act.id,
                [p EXCEPT !.animFrom = Some(deepCopy(p.rect)),
                          !.animTo = Some([p.rect EXCEPT !.x = Fix(act.to.x),
                                                         !.y = Fix(act.to.y)])])

\* (mutant) the first measurement of a batch keeps the overlay slot
prepareTwoPatchMeasFirstWins(s, act) ==
    IF Has(s, act.lhs.id) /\ Has(s, act.rhs.id) /\ s.overlay = Undefined
    THEN [s EXCEPT !.overlay = Some(
             [aId |-> act.lhs.id, aEdge |-> act.lhs.edge,
              bId |-> act.rhs.id, bEdge |-> act.rhs.edge,
              outcome |-> act.outcome, progress |-> 0,
              a |-> s.patches[act.lhs.id], b |-> s.patches[act.rhs.id],
              aOwner |-> "own", bOwner |-> "own"])]
    ELSE s

prepareTwoPatchMeas(s, act) ==
    IF Has(s, act.lhs.id) /\ Has(s, act.rhs.id)
    THEN [s EXCEPT !.overlay = Some(
             [aId |-> act.lhs.id, aEdge |-> act.lhs.edge,
              bId |-> act.rhs.id, bEdge |-> act.rhs.edge,
              outcome |-> act.outcome, progress |-> 0,
              a |-> s.patches[act.lhs.id], b |-> s.patches[act.rhs.id],
              aOwner |-> "own", bOwner |-> "own"])]
    ELSE s

\* (mutant) prepare already turns the boundaries of a RotateEdges
prepareActionEager(s, act) ==
    CASE act.kind = "DeformTo" -> prepareDeformTo(s, act)
      [] act.kind = "MoveTo" -> prepareMoveTo(s, act)
      [] act.kind = "TwoPatchMeas" -> prepareTwoPatchMeas(s, act)
      [] act.kind = "RotateEdges" /\ Has(s, act.id) ->
            LET e == s.patches[act.id].edges IN
            Mutate(s, act.id,
                   [s.patches[act.id] EXCEPT
                       !.edges = [top |-> e.left, right |-> e.top,
                                  bottom |-> e.right, left |-> e.bottom]])
      [] OTHER -> s

prepareAction(s, act) ==
    CASE act.kind = "DeformTo" -> prepareDeformTo(s, act)
      [] act.kind = "MoveTo" -> prepareMoveTo(s, act)
      [] act.kind = "TwoPatchMeas" -> prepareTwoPatchMeas(s, act)
      [] OTHER -> s   \* SinglePatchMeas: nothing; other kinds: no case

RECURSIVE prepareFrom(_, _, _)
prepareFrom(s, actions, i) ==
    IF i > Len(actions) THEN s
    ELSE prepareFrom(prepareAction(s, actions[i]), actions, i + 1)

prepareTick(s, actions) ==
    prepareFrom([s EXCEPT !.overlay = Undefined], actions, 1)

\* --- commitActions, one case per action kind

commitInitPatch(s, act) ==
    LET d == Detach(s, act.id) IN
    [d EXCEPT !.patches =
        [k \in DOMAIN s.patches \cup {act.id} |->
            IF k = act.id THEN NewPatch(FixRect(act.rect), act.edges)
            ELSE s.patches[k]]]

\* (mutant) DeformTo commits the rectangle and forgets the animation fields
commitDeformToKeepAnim(s, act) ==
    IF ~Has(s, act.id) THEN s
    ELSE Mutate(s, act.id, [s.patches[act.id] EXCEPT !.rect = FixRect(act.to)])

commitDeformTo(s, act) ==
    IF ~Has(s, act.id) THEN s
    ELSE Mutate(s, act.id, [s.patches[act.id] EXCEPT !.rect = FixRect(act.to),
                                                     !.animFrom = Undefined,
                                                     !.animTo = Undefined])

\* (mutant) a MoveTo of a patch that is not there puts a patch there
commitMoveToCreates(s, act) ==
    IF ~Has(s, act.id)
    THEN [s EXCEPT !.patches =
            [k \in DOMAIN s.patches \cup {act.id} |->
                IF k = act.id
                THEN NewPatch(FixRect(Rect(act.to.x, act.to.y, 1, 1)), ZXZX)
                ELSE s.patches[k]]]
    ELSE Mutate(s, act.id, [s.patches[act.id] EXCEPT !.rect.x = Fix(act.to.x),
                                                     !.rect.y = Fix(act.to.y),
                                                     !.animFrom = Undefined,
                                                     !.animTo = Undefined])

commitMoveTo(s, act) ==
    IF ~Has(s, act.id) THEN s
    ELSE Mutate(s, act.id, [s.patches[act.id] EXCEPT !.rect.x = Fix(act.to.x),
                                                     !.rect.y = Fix(act.to.y),
                                                     !.animFrom = Undefined,
                                                     !.animTo = Undefined])

\* (mutant) the boundaries turn the other way round
rotateBack(e) == [top |-> e.right, right |-> e.bottom, bottom |-> e.left, left |-> e.top]

rotate(e) == [top |-> e.left, right |-> e.top, bottom |-> e.right, left |-> e.bottom]

commitRotateEdges(s, act) ==
    IF ~Has(s, act.id) THEN s
    ELSE Mutate(s, act.id, [s.patches[act.id] EXCEPT !.edges = rotate(@)])

commitDiscard(s, act) ==
    LET d == Detach(s, act.id) IN
    [d EXCEPT !.patches = [k \in DOMAIN s.patches \ {act.id} |-> s.patches[k]]]

\* (mutant) the overlay survives the commit of a measurement
commitTwoPatchMeasKeepOverlay(s, act) == s

commitTwoPatchMeas(s, act) == [s EXCEPT !.overlay = Undefined]

commitAction(s, act) ==
    CASE act.kind = "InitPatch" -> commitInitPatch(s, act)
      [] act.kind = "DeformTo" -> commitDeformTo(s, act)
      [] act.kind = "MoveTo" -> commitMoveTo(s, act)
      [] act.kind = "RotateEdges" -> commitRotateEdges(s, act)
      [] act.kind = "Discard" -> commitDiscard(s, act)
      [] act.kind = "SinglePatchMeas" -> s
      [] act.kind = "TwoPatchMeas" -> commitTwoPatchMeas(s, act)

RECURSIVE commitFrom(_, _, _)
commitFrom(s, actions, i) ==
    IF i > Len(actions) THEN s
    ELSE commitFrom(commitAction(s, actions[i]), actions, i + 1)

\* (mutant) only the first action of the batch is committed
commitFirstAction(s, actions) ==
    IF Len(actions) = 0 THEN s ELSE commitAction(s, actions[1])

commitActions(s, actions) == commitFrom(s, actions, 1)

\* --- advanceInterpolations

\* (mutant) each advance interpolates from where the last one left the patch
advancePatchDrifting(p, t01) ==
    IF p.animFrom # Undefined /\ p.animTo # Undefined
    THEN [p EXCEPT !.rect = lerpRect(p.rect, p.animTo[1], t01)]
    ELSE p

advancePatch(p, t01) ==
    IF p.animFrom # Undefined /\ p.animTo # Undefined
    THEN [p EXCEPT !.rect = lerpRect(p.animFrom[1], p.animTo[1], t01)]
    ELSE p

advanceInterpolations(s, t01) ==
    LET moved == [s EXCEPT !.patches =
                     [k \in DOMAIN s.patches |-> advancePatch(s.patches[k], t01)]]
    IN  Sync(IF moved.overlay = Undefined THEN moved
             ELSE [moved EXCEPT !.overlay[1].progress = t01])

\* ------------------------------------------------------------------ programs

InitStep == demoProgram.steps[1]

XZZX == Edges("X", "Z", "Z", "X")

\* the actions the generated programs draw their batches from: every kind,
\* an InitPatch that overwrites q0, a Discard, and a measurement that names
\* q2, an identifier no program creates
ActionPool ==
    { InitPatch("q0", Rect(1, 2, 2, 1), XZZX),
      DeformTo("q0", Rect(8, 7, 4, 3)),
      DeformTo("q1", Rect(14, 7, 4, 3)),
      MoveTo("q0", 2, 3),
      RotateEdges("q0"),
      Discard("q0"),
      SinglePatchMeas("q0", "X", 1),
      TwoPatchMeas("q0", "right", "q1", "left", 1),
      TwoPatchMeas("q1", "top", "q1", "bottom", -1),
      TwoPatchMeas("q0", "top", "q2", "bottom", -1) }

\* batches of one action and of two actions (in either order, repeats included)
Batches ==
    { <<a>> : a \in ActionPool } \cup { <<a, b>> : a \in ActionPool, b \in ActionPool }

\* init step, then one batch; the last step is the one playback stays on
GeneratedPrograms ==
    { Program(demoProgram.tickMs, << InitStep, Step("batch", b) >>) : b \in Batches }

emptyProgram == Program(demoProgram.tickMs, << >>)

\* one frame delta of FrameMs completes a tick
fastProgram == Program(demoProgram.tickMs \div 2, demoProgram.steps)

\* four frame deltas of FrameMs per tick
slowProgram ==
    Program(demoProgram.tickMs * 2, <<
        InitStep,
        Step("deform and measure", <<
            DeformTo("q0", Rect(8, 7, 4, 3)),
            TwoPatchMeas("q0", "right", "q1", "left", 1) >>),
        Step("discard", << Discard("q1") >>),
        Step("after discard", <<
            MoveTo("q1", 2, 3),
            TwoPatchMeas("q0", "top", "q0", "bottom", 1),
            TwoPatchMeas("q0", "right", "q1", "left", -1),
            MoveTo("q0", 9, 9) >>) >>)

\* the 16 assignments of X / Z to the four boundaries
AllEdges ==
    { Edges(t, r, b, l) : t \in {"X", "Z"}, r \in {"X", "Z"},
                          b \in {"X", "Z"}, l \in {"X", "Z"} }

\* one patch with boundaries e, rotated once per step, four steps; one frame
\* delta of FrameMs completes a tick
rotateProgram(e) ==
    LET turn == Step("rotate", << RotateEdges("q0") >>) IN
    Program(demoProgram.tickMs \div 2,
            << Step("init", << InitPatch("q0", Rect(6, 7, 3, 3), e) >>),
               turn, turn, turn, turn >>)

RotatePrograms == { rotateProgram(e) : e \in AllEdges }

\* q1 is discarded, then a step refers to it in every way an action can
discardProgram ==
    Program(demoProgram.tickMs, <<
        InitStep,
        Step("discard", << Discard("q1") >>),
        Step("refer", <<
            DeformTo("q1", Rect(14, 7, 4, 3)),
            MoveTo("q1", 2, 3),
            RotateEdges("q1"),
            Discard("q1"),
            SinglePatchMeas("q1", "Z", 1),
            TwoPatchMeas("q1", "left", "q0", "right", 1),
            TwoPatchMeas("q0", "right", "q1", "left", -1) >>) >>)

Programs ==
    {demoProgram, emptyProgram, fastProgram, slowProgram, discardProgram}
        \cup GeneratedPrograms \cup RotatePrograms

\* The textarea's content, by what JSON.parse makes of it: the text of a
\* program, or text that does not parse.
TextOf(p) == <<"json", p>>

Garbage == <<"not json">>

Texts == { TextOf(p) : p \in Programs } \cup {Garbage}

\* useMemo(JSON.parse(programText)): the program, or null after a parse error
JSONparse(text) == IF text[1] = "json" THEN Some(text[2]) ELSE Undefined

program == JSONparse(programText)

Deltas == { k * FrameMs : k \in 0 .. MaxDt }

\* ------------------------------------------------------------------ render loop

\* (mutant) the loop progresses whether or not it is playing
progressWhilePaused(play, prog) == Len(prog.steps) > 0

\* `playing && program.steps.length > 0`
shouldProgress(play, prog) == play /\ Len(prog.steps) > 0

\* (mutant) the cursor wraps around after the last step
nextStepIdxWrapping(idx, prog) == (idx + 1) % Len(prog.steps)

\* Math.min(program.steps.length - 1, newStepIdx + 1)
nextStepIdx(idx, prog) == Min(Len(prog.steps) - 1, idx + 1)

\* (mutant) every progressing frame prepares
atTickStartOrLater(t) == t >= 0

\* `newT === 0`: the frame starts a tick
atTickStart(t) == t = 0

\* (mutant) a commit carries the time beyond the tick over into the next tick
onTickCarryOver(rt, idx, t, play, prog, dt) ==
    LET newRuntime == cloneRuntimeState(rt) IN
    IF ~shouldProgress(play, prog)
    THEN [runtime |-> newRuntime, stepIdx |-> idx, tInStep |-> t,
          prepared |-> FALSE, committed |-> -1, dropped |-> 0]
    ELSE LET step == prog.steps[idx + 1]
             start == IF atTickStart(t)
                      THEN prepareTick(cloneRuntimeState(rt), step.actions)
                      ELSE newRuntime
             newT == t + dt
             t01 == clamp01(newT, prog.tickMs)
             moved == advanceInterpolations(start, t01)
         IN  IF newT >= prog.tickMs
             THEN [runtime |-> commitActions(moved, step.actions),
                   stepIdx |-> nextStepIdx(idx, prog), tInStep |-> newT - prog.tickMs,
                   prepared |-> atTickStart(t), committed |-> idx, dropped |-> 0]
             ELSE [runtime |-> moved, stepIdx |-> idx, tInStep |-> newT,
                   prepared |-> atTickStart(t), committed |-> -1, dropped |-> 0]

\* the onTick callback of the render loop, for a loaded program
onTick(rt, idx, t, play, prog, dt) ==
    LET newRuntime == cloneRuntimeState(rt) IN
    IF ~shouldProgress(play, prog)
    THEN [runtime |-> newRuntime, stepIdx |-> idx, tInStep |-> t,
          prepared |-> FALSE, committed |-> -1, dropped |-> 0]
    ELSE LET step == prog.steps[idx + 1]
             start == IF atTickStart(t)
                      THEN prepareTick(cloneRuntimeState(rt), step.actions)
                      ELSE newRuntime
             newT == t + dt
             t01 == clamp01(newT, prog.tickMs)
             moved == advanceInterpolations(start, t01)
         IN  IF newT >= prog.tickMs
             THEN [runtime |-> commitActions(moved, step.actions),
                   stepIdx |-> nextStepIdx(idx, prog), tInStep |-> 0,
                   prepared |-> atTickStart(t), committed |-> idx,
                   dropped |-> newT - prog.tickMs]
             ELSE [runtime |-> moved, stepIdx |-> idx, tInStep |-> newT,
                   prepared |-> atTickStart(t), committed |-> -1, dropped |-> 0]

\* (mutant) stepOnce that never commits
stepOnceNoCommit(rt, idx, prog) ==
    LET i == Min(idx, Len(prog.steps) - 1)
        st == prog.steps[i + 1]
        rt1 == prepareTick(cloneRuntimeState(rt), st.actions)
    IN  [runtime |-> advanceInterpolations(rt1, Unit),
         stepIdx |-> Min(i + 1, Len(prog.steps) - 1), tInStep |-> 0,
         committed |-> i]

\* stepOnce, for a loaded program with at least one step
stepOnce(rt, idx, prog) ==
    LET i == Min(idx, Len(prog.steps) - 1)
        st == prog.steps[i + 1]
        rt1 == prepareTick(cloneRuntimeState(rt), st.actions)
        rt2 == advanceInterpolations(rt1, Unit)
    IN  [runtime |-> commitActions(rt2, st.actions),
         stepIdx |-> Min(i + 1, Len(prog.steps) - 1), tInStep |-> 0,
         committed |-> i]

\* ------------------------------------------------------------------ history

\* op: the handler; prepared / committed (a step index, -1 for none) / drew:
\* what it ran; error: what it threw; dropped: the elapsed time beyond the
\* tick duration that a committing frame discarded; from: the state it
\* started in
Did(op, prepared, committed, drew, error) ==
    [op |-> op, prepared |-> prepared, committed |-> committed,
     drew |-> drew, error |-> error, dropped |-> 0,
     from |-> [tInStep |-> tInStep, playing |-> playing,
               overlay |-> runtime.overlay # Undefined]]

\* what the step control would leave if it were pressed now
Expected(rt, idx, prog) ==
    LET r == stepOnce(rt, idx, prog) IN
    [runtime |-> r.runtime, stepIdx |-> r.stepIdx, tInStep |-> r.tInStep]

\* the tick record after a frame: opened by the first prepare of a tick (with
\* what the step control would have left from that state), closed by commit;
\* pausedAt is the elapsed time at which the tick last saw a frame while
\* paused (-1: it saw none)
TickAfterFrame(r, prog) ==
    LET opened == IF r.prepared /\ (tick = Undefined \/ ~tick[1].open)
                  THEN Some([expect |-> Expected(runtime, stepIdx, prog),
                             open |-> TRUE, pausedAt |-> -1])
                  ELSE tick
    IN  IF opened = Undefined THEN Undefined
        ELSE Some([opened[1] EXCEPT
                     !.open = @ /\ r.committed < 0,
                     !.pausedAt = IF opened[1].open /\ ~playing THEN tInStep ELSE @])

\* ------------------------------------------------------------------ actions

Init ==
    /\ programText = TextOf(demoProgram)
    /\ runtime = EmptyRuntime
    /\ stepIdx = 0
    /\ tInStep = 0
    /\ playing = FALSE
    /\ last = Did("mount", FALSE, -1, FALSE, "none")
    /\ tick = Undefined
    /\ finished = FALSE

\* one requestAnimationFrame callback (useAnimationClock is always running)
Frame(dt) ==
    IF program = Undefined
    THEN /\ last' = Did("Frame", FALSE, -1, FALSE, "none")
         /\ UNCHANGED <<programText, runtime, stepIdx, tInStep, playing, tick, finished>>
    ELSE LET prog == program[1]
             r == onTick(runtime, stepIdx, tInStep, playing, prog, dt)
         IN  /\ runtime' = r.runtime
             /\ stepIdx' = r.stepIdx
             /\ tInStep' = r.tInStep
             /\ last' = [Did("Frame", r.prepared, r.committed, TRUE, "none")
                             EXCEPT !.dropped = r.dropped]
             /\ tick' = TickAfterFrame(r, prog)
             /\ finished' = (finished \/ r.committed = Len(prog.steps) - 1)
             /\ UNCHANGED <<programText, playing>>

\* the Play / Pause button
TogglePlay ==
    /\ playing' = ~playing
    /\ last' = Did("TogglePlay", FALSE, -1, FALSE, "none")
    /\ UNCHANGED <<programText, runtime, stepIdx, tInStep, tick, finished>>

\* the Step button
StepOnce ==
    IF program = Undefined
    THEN /\ last' = Did("StepOnce", FALSE, -1, FALSE, "none")
         /\ UNCHANGED <<programText, runtime, stepIdx, tInStep, playing, tick, finished>>
    ELSE IF Len(program[1].steps) = 0
    THEN \* program.steps[-1] is undefined: reading st.actions throws
         /\ last' = Did("StepOnce", FALSE, -1, FALSE, "TypeError")
         /\ UNCHANGED <<programText, runtime, stepIdx, tInStep, playing, tick, finished>>
    ELSE LET prog == program[1]
             r == stepOnce(runtime, stepIdx, prog)
         IN  /\ runtime' = r.runtime
             /\ stepIdx' = r.stepIdx
             /\ tInStep' = r.tInStep
             /\ last' = Did("StepOnce", TRUE, r.committed, FALSE, "none")
             /\ tick' = Undefined
             /\ finished' = (finished \/ r.committed = Len(prog.steps) - 1)
             /\ UNCHANGED <<programText, playing>>

\* (mutant) a reset that leaves the play flag alone
resetKeepPlaying ==
    /\ runtime' = EmptyRuntime
    /\ stepIdx' = 0
    /\ tInStep' = 0
    /\ playing' = playing

\* reset(), and the body of the reset-on-program-change effect
resetAll ==
    /\ runtime' = EmptyRuntime
    /\ stepIdx' = 0
    /\ tInStep' = 0
    /\ playing' = FALSE

\* the Reset button
Reset ==
    /\ resetAll
    /\ last' = Did("Reset", FALSE, -1, FALSE, "none")
    /\ tick' = Undefined
    /\ finished' = FALSE
    /\ UNCHANGED programText

\* the textarea changes to text that parses: the effect on [programText] resets
LoadProgram(text) ==
    /\ text # programText
    /\ JSONparse(text) # Undefined
    /\ programText' = text
    /\ resetAll
    /\ last' = Did("LoadProgram", FALSE, -1, FALSE, "none")
    /\ tick' = Undefined
    /\ finished' = FALSE

\* (mutant) the effect resets on every change of the text
EditInvalidResets(text) ==
    /\ text # programText
    /\ JSONparse(text) = Undefined
    /\ programText' = text
    /\ resetAll
    /\ last' = Did("EditInvalid", FALSE, -1, FALSE, "none")
    /\ tick' = Undefined
    /\ finished' = FALSE

\* the textarea changes to text that does not parse: program becomes null and
\* the effect returns before resetting
EditInvalid(text) ==
    /\ text # programText
    /\ JSONparse(text) = Undefined
    /\ programText' = text
    /\ last' = Did("EditInvalid", FALSE, -1, FALSE, "none")
    /\ UNCHANGED <<runtime, stepIdx, tInStep, playing, tick, finished>>

Next ==
    \/ \E dt \in Deltas : Frame(dt)
    \/ TogglePlay
    \/ StepOnce
    \/ Reset
    \/ \E text \in Texts : LoadProgram(text)
    \/ \E text \in Texts : EditInvalid(text)

Spec == Init /\ [][Next]_vars

\* ------------------------------------------------------------------ claims

Loaded == program # Undefined

Steps == program[1].steps

Cursor == [runtime |-> runtime, stepIdx |-> stepIdx, tInStep |-> tInStep]

\* C1: step-once equivalence. A frame that commits leaves exactly what the
\* step control would have left had it been pressed at the start of the tick
\* (runtime state, step index, elapsed time), whatever frames the tick took;
\* and in every state with zero elapsed time inside an open tick (frames of
\* delta 0) the step control would still leave that same result.
StepOnceEquivalence ==
    /\ (last.op = "Frame" /\ last.committed >= 0)
          => (tick # Undefined /\ Cursor = tick[1].expect)
    /\ (Loaded /\ tick # Undefined /\ tInStep = 0 /\ tick[1].open)
          => (Len(Steps) > 0 /\ Expected(runtime, stepIdx, program[1]) = tick[1].expect)

\* a tick of the demo's "approach" step that took several frames has committed
StepOnceEquivalenceWitness ==
    /\ programText = TextOf(demoProgram)
    /\ last.op = "Frame" /\ last.committed = 1 /\ ~last.prepared
    /\ Cursor = tick[1].expect
    /\ runtime.patches["q0"].rect = FixRect(Rect(8, 7, 4, 3))

\* C2: reset and the loading of a valid program leave an empty patch map, no
\* overlay, step index 0, elapsed time 0 and playing = FALSE, from any state;
\* reset leaves the program as it was.
ResetClearsEverything ==
    [][ /\ last'.op \in {"Reset", "LoadProgram"}
           => /\ runtime'.patches = << >> /\ runtime'.overlay = Undefined
              /\ stepIdx' = 0 /\ tInStep' = 0 /\ playing' = FALSE
        /\ last'.op = "Reset" => programText' = programText /\ program' = program
      ]_vars

\* a reset pressed while playing, mid-tick, with an overlay active
ResetClearsEverythingWitness ==
    /\ last.op = "Reset"
    /\ last.from.playing /\ last.from.tInStep > 0 /\ last.from.overlay
    /\ runtime = EmptyRuntime /\ stepIdx = 0 /\ tInStep = 0 /\ ~playing
    /\ programText = TextOf(slowProgram)

\* C3 (as claimed): once the last step's tick has committed, later playing
\* frames and later presses of Step leave the runtime state unchanged.
HoldsAtFinalFrame ==
    [][ (finished /\ last'.op \in {"Frame", "StepOnce"})
           => /\ runtime'.patches = runtime.patches
              /\ (runtime'.overlay = Undefined) = (runtime.overlay = Undefined)
      ]_vars

LastIdx == Len(program[1].steps) - 1

\* C4 (as claimed): 0 <= stepIdx <= steps.length - 1 for every accepted
\* program; the index never decreases except by reset or program load; the
\* commit of the last step's tick does not clear the play flag.
StepIndexWithinSteps ==
    [][ /\ Loaded' => (0 <= stepIdx' /\ stepIdx' <= LastIdx')
        /\ last'.op \notin {"Reset", "LoadProgram"} => stepIdx' >= stepIdx
        /\ (Loaded /\ last'.op = "Frame" /\ last'.committed = LastIdx)
              => playing' = playing
      ]_vars

\* C4 (amended): the upper end of the range is max(0, steps.length - 1), so
\* that a program without steps keeps the index at 0.
StepIndexClamped ==
    [][ /\ Loaded' => (0 <= stepIdx' /\ stepIdx' <= Max(0, LastIdx'))
        /\ last'.op \notin {"Reset", "LoadProgram"} => stepIdx' >= stepIdx
        /\ (Loaded /\ last'.op = "Frame" /\ last'.committed = LastIdx)
              => playing' = playing
      ]_vars

\* a frame has committed the last of several steps: the index stays on it
\* and playback goes on
StepIndexClampedWitness ==
    /\ Loaded /\ LastIdx > 0
    /\ last.op = "Frame" /\ last.committed = LastIdx /\ finished
    /\ stepIdx = LastIdx /\ tInStep = 0 /\ playing

\* C5 (as claimed): with a program accepted, no frame and no control raises
\* an error.
NoFatalErrors == Loaded => last.error = "none"

\* the action at index i of batch b is the only one of b that sets the
\* geometry or the existence of its patch
OnlyGeometryActionOn(b, i) ==
    \A j \in 1 .. Len(b) :
        (j # i /\ b[j].kind \in {"InitPatch", "DeformTo", "MoveTo", "Discard"})
            => b[j].id # b[i].id

\* C6: commit exactness. After a commit, a patch that the committed batch
\* deforms once (and does not otherwise initialise, move or discard) has
\* exactly the target rectangle and no animate-from / animate-to, whatever
\* frames and progress values the tick went through; after the demo's
\* "approach" step, q0 is at {8,7,4,3} and q1 at {14,7,4,3}.
CommitExactness ==
    /\ (Loaded /\ last.committed >= 0) =>
          LET b == Steps[last.committed + 1].actions IN
          \A i \in 1 .. Len(b) :
              (b[i].kind = "DeformTo" /\ OnlyGeometryActionOn(b, i)
                  /\ Has(runtime, b[i].id))
              => /\ runtime.patches[b[i].id].rect = FixRect(b[i].to)
                 /\ runtime.patches[b[i].id].animFrom = Undefined
                 /\ runtime.patches[b[i].id].animTo = Undefined
    /\ (programText = TextOf(demoProgram) /\ last.committed = 1) =>
          /\ runtime.patches["q0"].rect = FixRect(Rect(8, 7, 4, 3))
          /\ runtime.patches["q1"].rect = FixRect(Rect(14, 7, 4, 3))

\* a tick of several frames (progress 1/4, 1/2, 3/4, 1) has committed the
\* DeformTo of slowProgram
CommitExactnessWitness ==
    /\ programText = TextOf(slowProgram)
    /\ last.op = "Frame" /\ last.committed = 1
    /\ last.from.tInStep = 3 * FrameMs
    /\ runtime.patches["q0"].rect = FixRect(Rect(8, 7, 4, 3))
    /\ runtime.patches["q0"].animTo = Undefined

\* C7 (as claimed): no patch object is reachable from two snapshots: the
\* endpoints of a snapshot's overlay are patch objects of its own patch map.
SnapshotIsolation ==
    runtime.overlay # Undefined =>
        /\ runtime.overlay[1].aOwner = "own"
        /\ runtime.overlay[1].bOwner = "own"

OverlaySlot(rt) ==
    IF rt.overlay = Undefined THEN Undefined
    ELSE LET o == rt.overlay[1] IN
         Some([aId |-> o.aId, aEdge |-> o.aEdge, bId |-> o.bId, bEdge |-> o.bEdge,
               outcome |-> o.outcome, progress |-> o.progress])

\* C9: pause preserves the mid-tick state. A frame that arrives while paused
\* changes no patch (rectangle, edges, animate-from, animate-to), not the
\* overlay's progress, not the step index, not the elapsed time; and a tick
\* that saw paused frames commits what an uninterrupted tick commits.
PausePreservesTick ==
    [][ /\ (last'.op = "Frame" /\ ~playing)
              => /\ runtime'.patches = runtime.patches
                 /\ OverlaySlot(runtime') = OverlaySlot(runtime)
                 /\ stepIdx' = stepIdx /\ tInStep' = tInStep
        /\ (last'.op = "Frame" /\ last'.committed >= 0 /\ tick'[1].pausedAt >= 0)
              => Cursor' = tick'[1].expect
      ]_vars

\* a tick paused half way, with a patch in mid-deformation and the overlay
\* at partial progress, has been resumed and has committed
PausePreservesTickWitness ==
    /\ programText = TextOf(slowProgram)
    /\ last.op = "Frame" /\ last.committed = 1 /\ ~last.prepared
    /\ tick[1].pausedAt = 2 * FrameMs
    /\ Cursor = tick[1].expect

MeasIdx(b) == { i \in 1 .. Len(b) : b[i].kind = "TwoPatchMeas" }

\* the measurements of b whose two patches are both in s
LiveMeasIdx(s, b) ==
    { i \in MeasIdx(b) : Has(s, b[i].lhs.id) /\ Has(s, b[i].rhs.id) }

MaxOf(S) == CHOOSE m \in S : \A n \in S : n <= m

\* the overlay o of state s shows measurement m at the given progress
Shows(s, o, m, progress) ==
    /\ o.aId = m.lhs.id /\ o.aEdge = m.lhs.edge
    /\ o.bId = m.rhs.id /\ o.bEdge = m.rhs.edge
    /\ o.outcome = m.outcome /\ o.progress = progress
    /\ o.a = s.patches[m.lhs.id] /\ o.b = s.patches[m.rhs.id]

\* the batch the engine prepares in this state
CurrentBatch == Steps[Min(stepIdx, LastIdx) + 1].actions

\* prepareTick installs the overlay at progress 0
PreparesAtProgressZero ==
    LET s == prepareTick(cloneRuntimeState(runtime), CurrentBatch) IN
    s.overlay # Undefined => s.overlay[1].progress = 0

\* a frame has just prepared the current batch and has not committed it
JustPrepared == last.op = "Frame" /\ last.prepared /\ last.committed < 0

\* C10 (as claimed): after prepare of a batch with more than one
\* TwoPatchMeas, the overlay, if any, is that of the last TwoPatchMeas of the
\* batch (its patches, edges and outcome), installed at progress 0 and, the
\* frame's advance done, at the progress of the frame.
OverlayShowsLastMeasurement ==
    (Loaded /\ Len(Steps) > 0 /\ Cardinality(MeasIdx(CurrentBatch)) > 1) =>
        /\ PreparesAtProgressZero
        /\ (JustPrepared /\ runtime.overlay # Undefined)
           => Shows(runtime, runtime.overlay[1],
                    CurrentBatch[MaxOf(MeasIdx(CurrentBatch))],
                    clamp01(tInStep, program[1].tickMs))

\* C10 (amended): the overlay is that of the last TwoPatchMeas of the batch
\* whose two patches both exist at prepare; there is none exactly when the
\* batch has no such measurement.
OverlayShowsLastLiveMeasurement ==
    (Loaded /\ Len(Steps) > 0 /\ Cardinality(MeasIdx(CurrentBatch)) > 1) =>
        /\ PreparesAtProgressZero
        /\ JustPrepared
           => LET live == LiveMeasIdx(runtime, CurrentBatch) IN
              /\ (runtime.overlay = Undefined) = (live = {})
              /\ runtime.overlay # Undefined =>
                    Shows(runtime, runtime.overlay[1], CurrentBatch[MaxOf(live)],
                          clamp01(tInStep, program[1].tickMs))

\* a frame has prepared a batch of two measurements, both with their patches
\* present: the overlay shows the second one
OverlayShowsLastLiveMeasurementWitness ==
    /\ Loaded /\ Len(Steps) > 0 /\ JustPrepared
    /\ LiveMeasIdx(runtime, CurrentBatch) = {1, 2}
    /\ runtime.overlay # Undefined
    /\ Shows(runtime, runtime.overlay[1], CurrentBatch[2],
             clamp01(tInStep, program[1].tickMs))
    /\ CurrentBatch[1] # CurrentBatch[2]

\* what a patch map says of geometry and boundaries: for every identifier
\* present, its rectangle and its edges
Geometry(rt) ==
    [k \in DOMAIN rt.patches |->
        [rect |-> rt.patches[k].rect, edges |-> rt.patches[k].edges]]

OnlyMeasurements(b) == \A i \in 1 .. Len(b) : b[i].kind = "TwoPatchMeas"

\* the handler that has just run executed part of a tick of the engine
\* (prepare, advance or commit)
RanEngine(l, wasPlaying) ==
    \/ l.op = "StepOnce" /\ l.committed >= 0
    \/ l.op = "Frame" /\ l.drew /\ wasPlaying

\* C11: after the commit of a tick whose batch contains a TwoPatchMeas there
\* is no overlay; and every frame and every step-control run of a tick whose
\* batch consists of TwoPatchMeas actions only (prepare, advances, commit)
\* leaves the set of patch identifiers and every patch's rectangle and edges
\* as they were.
MeasurementLeavesPatchesAlone ==
    [][ /\ (Loaded' /\ last'.committed >= 0
               /\ MeasIdx(Steps'[last'.committed + 1].actions) # {})
           => runtime'.overlay = Undefined
        /\ (Loaded /\ Len(Steps) > 0 /\ RanEngine(last', playing)
               /\ OnlyMeasurements(CurrentBatch))
           => Geometry(runtime') = Geometry(runtime)
      ]_vars

\* the demo's "Z Z measurement" tick, two frames long, has committed: the
\* overlay that was shown is gone and both patches are where "approach" left
\* them
MeasurementLeavesPatchesAloneWitness ==
    /\ programText = TextOf(demoProgram)
    /\ last.op = "Frame" /\ last.committed = 2 /\ ~last.prepared
    /\ last.from.overlay /\ runtime.overlay = Undefined
    /\ Geometry(runtime) =
         [k \in {"q0", "q1"} |->
             [rect |-> FixRect(IF k = "q0" THEN Rect(8, 7, 4, 3) ELSE Rect(14, 7, 4, 3)),
              edges |-> ZXZX]]

\* the committed batch is a single RotateEdges of a patch there is
RotatesOnce(b, rt) ==
    Len(b) = 1 /\ b[1].kind = "RotateEdges" /\ Has(rt, b[1].id)

\* the program initialises q0 and then rotates it once in each of four steps
FourRotations(prog) ==
    /\ Len(prog.steps) = 5
    /\ prog.steps[1].actions[1] =
          InitPatch("q0", Rect(6, 7, 3, 3), prog.steps[1].actions[1].edges)
    /\ \A i \in 2 .. 5 : prog.steps[i].actions = << RotateEdges("q0") >>

\* C12: rotation is a 4-cycle. The tick of a single RotateEdges on an
\* existing patch leaves new top = old left, new right = old top, new bottom
\* = old right, new left = old bottom and changes nothing else (the patch's
\* rectangle, the other patches, the overlay); four such commits return the
\* boundaries the patch was initialised with, for each of the 16 X / Z
\* assignments; the demo's "rotate edges" step turns {Z, X, Z, X} into
\* {X, Z, X, Z}.
RotationIsFourCycle ==
    [][ /\ (Loaded /\ last'.committed >= 0
               /\ RotatesOnce(Steps[last'.committed + 1].actions, runtime))
           => LET id == Steps[last'.committed + 1].actions[1].id
                  old == runtime.patches[id].edges
                  new == runtime'.patches[id].edges
              IN  /\ new.top = old.left /\ new.right = old.top
                  /\ new.bottom = old.right /\ new.left = old.bottom
                  /\ DOMAIN runtime'.patches = DOMAIN runtime.patches
                  /\ \A k \in DOMAIN runtime.patches :
                        /\ runtime'.patches[k].rect = runtime.patches[k].rect
                        /\ runtime'.patches[k].animFrom = runtime.patches[k].animFrom
                        /\ runtime'.patches[k].animTo = runtime.patches[k].animTo
                        /\ k # id => runtime'.patches[k] = runtime.patches[k]
                  /\ runtime'.overlay = runtime.overlay
        /\ (Loaded /\ FourRotations(program[1]) /\ last'.committed = 4 /\ ~finished)
           => runtime'.patches["q0"].edges = Steps[1].actions[1].edges
        /\ (programText = TextOf(demoProgram) /\ last'.committed = 4)
           => /\ runtime.patches["q0"].edges = Edges("Z", "X", "Z", "X")
              /\ runtime'.patches["q0"].edges = Edges("X", "Z", "X", "Z")
      ]_vars

\* a patch whose four rotations are all different has been rotated four
\* times, by frames, and has the boundaries it started with
RotationIsFourCycleWitness ==
    /\ programText = TextOf(rotateProgram(Edges("X", "X", "Z", "Z")))
    /\ FourRotations(program[1])
    /\ last.op = "Frame" /\ last.committed = 4 /\ finished
    /\ stepIdx = 4 /\ tInStep = 0
    /\ runtime.patches["q0"].edges = Edges("X", "X", "Z", "Z")

\* act refers by identifier to a patch that rt does not have
RefersToAbsent(act, rt) ==
    \/ /\ act.kind \in {"DeformTo", "MoveTo", "RotateEdges", "Discard", "SinglePatchMeas"}
       /\ ~Has(rt, act.id)
    \/ /\ act.kind = "TwoPatchMeas"
       /\ (~Has(rt, act.lhs.id) \/ ~Has(rt, act.rhs.id))

Initialises(b, q) == \E i \in 1 .. Len(b) : b[i].kind = "InitPatch" /\ b[i].id = q

\* C13: references to a patch that is gone (discarded, or never created) are
\* no-ops. Whatever a frame or the step control runs of a tick raises no
\* error; a patch q that is absent stays absent unless the batch holds an
\* InitPatch for q, and no overlay has q as an endpoint; and if every action
\* of the batch refers to an absent patch (DeformTo, MoveTo, RotateEdges,
\* Discard, SinglePatchMeas, or TwoPatchMeas with an absent endpoint) the
\* tick installs no overlay and leaves the set of patches and every patch's
\* rectangle and edges unchanged.
ReferencesToDiscardedAreNoOps ==
    [][ (Loaded /\ Len(Steps) > 0 /\ RanEngine(last', playing)) =>
          /\ last'.error = "none"
          /\ \A q \in PatchIds :
                (~Has(runtime, q) /\ ~Initialises(CurrentBatch, q))
                => /\ ~Has(runtime', q)
                   /\ runtime'.overlay # Undefined
                         => /\ runtime'.overlay[1].aId # q
                            /\ runtime'.overlay[1].bId # q
          /\ (\A i \in 1 .. Len(CurrentBatch) : RefersToAbsent(CurrentBatch[i], runtime))
             => /\ Geometry(runtime') = Geometry(runtime)
                /\ runtime'.overlay = Undefined
      ]_vars

\* q1 was discarded by an earlier step; a tick of two frames whose actions
\* all refer to q1 has committed and q0 is as the init step left it
ReferencesToDiscardedAreNoOpsWitness ==
    /\ programText = TextOf(discardProgram)
    /\ last.op = "Frame" /\ last.committed = 2 /\ ~last.prepared
    /\ last.error = "none"
    /\ runtime.overlay = Undefined
    /\ Geometry(runtime) =
         [k \in {"q0"} |-> [rect |-> FixRect(Rect(6, 7, 3, 3)), edges |-> ZXZX]]

Animated(p) == p.animFrom # Undefined /\ p.animTo # Undefined

\* from + (to - from) * p, p a fixed-point progress; the division is exact
\* for the rectangles and progress values that occur
AtProgress(from, to, p) ==
    [x |-> from.x + ((to.x - from.x) * p) \div Unit,
     y |-> from.y + ((to.y - from.y) * p) \div Unit,
     w |-> from.w + ((to.w - from.w) * p) \div Unit,
     h |-> from.h + ((to.h - from.h) * p) \div Unit]

\* the progress values a frame can compute: quarters of a tick, and 1
Progresses == { clamp01(d, slowProgram.tickMs) : d \in Deltas } \cup {Unit}

\* C14: advance is a function of (animate-from, animate-to, progress) only.
\* In every reachable state each animated patch's rectangle is from + (to -
\* from) * p for the progress p of the last advance of the tick (elapsed /
\* tickMs), whatever advances came before; and advancing the state by p1 and
\* then by p2 gives what advancing by p2 alone gives (so repeating p changes
\* nothing), with every animated patch at from + (to - from) * p2, at
\* animate-from for p2 = 0 and at animate-to for p2 = 1, and every other
\* patch left as it was.
AdvanceIsPure ==
    (Loaded /\ Len(Steps) > 0) =>
        /\ \A k \in DOMAIN runtime.patches :
              LET p == runtime.patches[k] IN
              Animated(p) =>
                  p.rect = AtProgress(p.animFrom[1], p.animTo[1],
                                      clamp01(tInStep, program[1].tickMs))
        /\ \A p1 \in Progresses, p2 \in Progresses :
              LET once == advanceInterpolations(runtime, p2)
                  twice == advanceInterpolations(advanceInterpolations(runtime, p1), p2)
              IN  /\ twice = once
                  /\ DOMAIN once.patches = DOMAIN runtime.patches
                  /\ \A k \in DOMAIN runtime.patches :
                        LET p == runtime.patches[k] IN
                        IF Animated(p)
                        THEN /\ once.patches[k] =
                                  [p EXCEPT !.rect = AtProgress(p.animFrom[1], p.animTo[1], p2)]
                             /\ p2 = 0 => once.patches[k].rect = p.animFrom[1]
                             /\ p2 = Unit => once.patches[k].rect = p.animTo[1]
                        ELSE once.patches[k] = p

\* the fourth frame of a tick of slowProgram has advanced q0 to three
\* quarters of the way from {6,7,3,3} to {8,7,4,3}, after advances to one
\* quarter and to one half
AdvanceIsPureWitness ==
    /\ programText = TextOf(slowProgram)
    /\ last.op = "Frame" /\ ~last.prepared /\ last.committed < 0
    /\ last.from.tInStep = 2 * FrameMs /\ tInStep = 3 * FrameMs
    /\ Has(runtime, "q0")
    /\ runtime.patches["q0"].animFrom = Some(FixRect(Rect(6, 7, 3, 3)))
    /\ runtime.patches["q0"].animTo = Some(FixRect(Rect(8, 7, 4, 3)))
    /\ runtime.patches["q0"].rect =
         [x |-> Fix(6) + 3 * (Fix(2) \div 4), y |-> Fix(7),
          w |-> Fix(3) + 3 * (Fix(1) \div 4), h |-> Fix(3)]

\* a tick has been prepared by a frame and has not committed yet
TickOpen == tick # Undefined /\ tick[1].open

\* C15 (as claimed): in continuous play prepare runs exactly once per tick,
\* for every sequence of frame deltas dt >= 0: a frame prepares only if the
\* elapsed time is zero and no earlier frame has prepared the tick; a playing
\* frame that starts at elapsed time zero prepares; and a frame that commits
\* belongs to a tick that has been prepared.
PreparesOncePerTick ==
    [][ (Loaded /\ Len(Steps) > 0 /\ last'.op = "Frame") =>
          /\ last'.prepared => (tInStep = 0 /\ ~TickOpen)
          /\ (playing /\ tInStep = 0) => last'.prepared
          /\ last'.committed >= 0 => (TickOpen \/ last'.prepared)
      ]_vars

\* what drawRuntime reads of a state: the patches, and the overlay with the
\* values of its two endpoint objects
Drawn(rt) ==
    [patches |-> rt.patches,
     overlay |-> IF rt.overlay = Undefined THEN Undefined
                 ELSE LET o == rt.overlay[1] IN
                      Some([aEdge |-> o.aEdge, bEdge |-> o.bEdge, outcome |-> o.outcome,
                            progress |-> o.progress, a |-> o.a, b |-> o.b])]

\* C15 (amended): a frame prepares exactly if it is playing and starts at
\* elapsed time zero, before its advance. That is one frame per tick when
\* the frame at elapsed time zero has dt > 0; a frame with dt = 0 leaves the
\* elapsed time at zero, so the next playing frame prepares the same tick
\* again, and that changes nothing: preparing and advancing to progress 0
\* rebuilds the patches and the overlay the tick already had. A frame that commits belongs to
\* a tick that has been prepared.
PreparesWheneverElapsedIsZero ==
    [][ (Loaded /\ Len(Steps) > 0 /\ last'.op = "Frame") =>
          /\ last'.prepared <=> (playing /\ tInStep = 0)
          /\ (last'.prepared /\ TickOpen)
                => Drawn(advanceInterpolations(
                       prepareTick(cloneRuntimeState(runtime), CurrentBatch), 0))
                   = Drawn(runtime)
          /\ last'.committed >= 0 => (TickOpen \/ last'.prepared)
      ]_vars

\* a frame has prepared a tick that an earlier frame of delta 0 had already
\* prepared (its overlay was showing at elapsed time zero)
PreparesWheneverElapsedIsZeroWitness ==
    /\ last.op = "Frame" /\ last.prepared /\ last.committed < 0
    /\ last.from.tInStep = 0 /\ last.from.overlay /\ last.from.playing
    /\ tInStep > 0 /\ TickOpen
    /\ runtime.overlay # Undefined

\* b holds a DeformTo or a MoveTo of patch k
Animates(b, k) ==
    \E i \in 1 .. Len(b) : b[i].kind \in {"DeformTo", "MoveTo"} /\ b[i].id = k

\* C16: discrete state changes only at tick boundaries. A frame that does
\* not commit leaves the set of patch identifiers and every patch's edges
\* unchanged, and changes the rectangle of no patch other than those a
\* DeformTo or MoveTo of the current batch targets (the overlay may change);
\* so a frame or step-control run that creates or removes a patch or turns
\* its boundaries is one that commits.
DiscreteChangesOnlyAtCommit ==
    [][ /\ (Loaded /\ last'.op = "Frame" /\ last'.committed < 0) =>
              /\ DOMAIN runtime'.patches = DOMAIN runtime.patches
              /\ \A k \in DOMAIN runtime.patches :
                    /\ runtime'.patches[k].edges = runtime.patches[k].edges
                    /\ runtime'.patches[k].rect # runtime.patches[k].rect
                          => (Len(Steps) > 0 /\ playing /\ Animates(CurrentBatch, k))
        /\ (last'.op \in {"Frame", "StepOnce"}
               /\ [k \in DOMAIN runtime'.patches |-> runtime'.patches[k].edges]
                     # [k \in DOMAIN runtime.patches |-> runtime.patches[k].edges])
           => last'.committed >= 0
      ]_vars

\* half way through a tick that deforms q0 and rotates its boundaries: the
\* rectangle is half way, the boundaries are still those of the init step
DiscreteChangesOnlyAtCommitWitness ==
    /\ Loaded /\ Len(Steps) > 0 /\ JustPrepared /\ tInStep = FrameMs
    /\ CurrentBatch = << DeformTo("q0", Rect(8, 7, 4, 3)), RotateEdges("q0") >>
    /\ runtime.patches["q0"].edges = ZXZX
    /\ runtime.patches["q0"].rect =
         [x |-> Fix(7), y |-> Fix(7), w |-> Fix(3) + Fix(1) \div 2, h |-> Fix(3)]

\* endpoint object e shows what the patch stored under id shows
SameAsLive(rt, id, e) ==
    /\ Has(rt, id)
    /\ e.rect = rt.patches[id].rect
    /\ e.edges = rt.patches[id].edges

\* C17 (as claimed): in every state with an active overlay each endpoint has
\* the rectangle and the edges of the patch stored in the patch map under its
\* identifier, also across the frames of a tick that deforms or moves an
\* endpoint patch.
OverlayTracksLivePatches ==
    runtime.overlay # Undefined =>
        /\ SameAsLive(runtime, runtime.overlay[1].aId, runtime.overlay[1].a)
        /\ SameAsLive(runtime, runtime.overlay[1].bId, runtime.overlay[1].b)

\* no patch carries an animate-from or animate-to and no overlay is active
Clean(rt) ==
    /\ rt.overlay = Undefined
    /\ \A k \in DOMAIN rt.patches :
          rt.patches[k].animFrom = Undefined /\ rt.patches[k].animTo = Undefined

\* C18: clean tick boundary. A commit (by a frame or by the step control), a
\* reset and a program load leave the elapsed time at zero with no tick
\* prepared; and in every state with elapsed time zero and no tick prepared
\* (that is, not counting a tick that frames of delta 0 have prepared and not
\* yet advanced) no patch carries an animate-from or animate-to and no
\* overlay is active, whatever the batch.
CleanTickBoundary ==
    /\ (last.op \in {"mount", "Reset", "LoadProgram"} \/ last.committed >= 0)
          => (tInStep = 0 /\ ~TickOpen)
    /\ (tInStep = 0 /\ ~TickOpen) => Clean(runtime)

\* a tick of two frames has committed a batch that overwrites q0 and deforms
\* it: q0 is the new patch at the target rectangle, without animation fields
CleanTickBoundaryWitness ==
    /\ Loaded /\ Len(Steps) > 0
    /\ last.op = "Frame" /\ last.committed = 1 /\ ~last.prepared
    /\ last.from.tInStep > 0
    /\ Steps[2].actions = << InitPatch("q0", Rect(1, 2, 2, 1), XZZX),
                             DeformTo("q0", Rect(8, 7, 4, 3)) >>
    /\ tInStep = 0 /\ Clean(runtime)
    /\ runtime.patches["q0"] = NewPatch(FixRect(Rect(8, 7, 4, 3)), XZZX)

\* C19: a single frame commits at most one step and keeps the elapsed time
\* bounded. Whatever its delta, a frame leaves the step index where it was
\* or one further; a frame that commits is a playing frame that commits the
\* current step, once (it leaves what the step control would have left from
\* the start of the tick), moves the index on by one (clamped to the last
\* step) and leaves the elapsed time at zero, dropping the time beyond the
\* tick; a frame that does not commit never lowers the elapsed time; and 0 <=
\* elapsed < tickMs holds in every state with a program loaded.
FrameCommitsAtMostOnce ==
    [][ /\ Loaded' => (0 <= tInStep' /\ tInStep' < program'[1].tickMs)
        /\ (Loaded /\ last'.op = "Frame") =>
              /\ stepIdx' \in {stepIdx, stepIdx + 1}
              /\ last'.committed >= 0
                    => /\ playing /\ last'.committed = stepIdx
                       /\ stepIdx' = Min(stepIdx + 1, LastIdx)
                       /\ tInStep' = 0
                       /\ last'.dropped >= 0
                       /\ Cursor' = tick'[1].expect
              /\ last'.committed < 0
                    => (stepIdx' = stepIdx /\ tInStep' >= tInStep /\ last'.dropped = 0)
      ]_vars

\* one frame whose delta is three tick durations of fastProgram has prepared
\* and committed the "approach" step, and only that step: the index went
\* from 1 to 2 and two tick durations of time were dropped
FrameCommitsAtMostOnceWitness ==
    /\ programText = TextOf(fastProgram)
    /\ last.op = "Frame" /\ last.prepared /\ last.committed = 1
    /\ last.dropped = 2 * fastProgram.tickMs
    /\ stepIdx = 2 /\ tInStep = 0
    /\ runtime.patches["q0"].rect = FixRect(Rect(8, 7, 4, 3))
    /\ runtime.overlay = Undefined

====
